---- MODULE Spec2Model ----
(***************************************************************************)
(* Tre-i-rad (tic_tac_toe.py): the board functions check_winner and        *)
(* is_draw, the move prompt get_valid_move, the game loop play_game, the   *)
(* replay prompt ask_play_again and the driver main.                       *)
(*                                                                         *)
(* A line of text read by input() is a sequence of one-character strings.  *)
(* The program is single-threaded and blocks only in input(): one step of  *)
(* the model is everything the program does from one input() call to the   *)
(* next one (or to the end of the process).                                *)
(***************************************************************************)
EXTENDS Integers, Sequences, FiniteSets, TLC

VARIABLES
    cells,      \* play_game: the board, 9 cells indexed 0..8
    current,    \* play_game: the symbol of the player to move
    last_move,  \* play_game: <<index>> of the last applied move, <<>> for None
    move,       \* play_game: <<index>> get_valid_move returned, <<>> before
    winner,     \* play_game: the value check_winner returned
    draw,       \* <<value>> of is_draw(cells) when last evaluated, <<>> before
    pc,         \* the input() call the program is blocked in, or "exited"
    out,        \* the last message printed to stdout
    exit_code,  \* <<exit code>> of the process once it has ended, <<>> before
    prev_pc     \* history: the value of pc before the last step, None at first

vars == <<cells, current, last_move, move, winner, draw, pc, out, exit_code, prev_pc>>

----------------------------------------------------------------------------
(* Values *)

\* Python's None
None == "None"
\* a variable of symbols that has not been assigned yet
Unbound == "Unbound"
\* a number or truth value that is there, and one that is not (None, or not
\* assigned yet)
Some(v) == <<v>>
Nothing == <<>>

Indices == 0..8
Players == {"X", "O"}
Boards == [Indices -> {" ", "X", "O"}]

\* [" "] * 9
EmptyBoard == [i \in Indices |-> " "]

----------------------------------------------------------------------------
(* Text: str.strip, str.lower and int *)

Whitespace == {" ", "\t"}
Digits == {"0", "1", "2", "3", "4", "5", "6", "7", "8", "9"}

RECURSIVE lstrip(_)
lstrip(s) ==
    IF s # <<>> /\ Head(s) \in Whitespace THEN lstrip(Tail(s)) ELSE s

RECURSIVE rstrip(_)
rstrip(s) ==
    IF s # <<>> /\ s[Len(s)] \in Whitespace
    THEN rstrip(SubSeq(s, 1, Len(s) - 1))
    ELSE s

\* str.strip(): leading and trailing whitespace removed
strip(s) == rstrip(lstrip(s))

lower_char(ch) ==
    CASE ch = "A" -> "a" [] ch = "E" -> "e" [] ch = "I" -> "i"
      [] ch = "J" -> "j" [] ch = "N" -> "n" [] ch = "O" -> "o"
      [] ch = "Q" -> "q" [] ch = "S" -> "s" [] ch = "T" -> "t"
      [] ch = "U" -> "u" [] ch = "X" -> "x" [] ch = "Y" -> "y"
      [] OTHER -> ch

\* str.lower()
lower(s) == [i \in 1..Len(s) |-> lower_char(s[i])]

DigitValue(ch) ==
    CASE ch = "0" -> 0 [] ch = "1" -> 1 [] ch = "2" -> 2 [] ch = "3" -> 3
      [] ch = "4" -> 4 [] ch = "5" -> 5 [] ch = "6" -> 6 [] ch = "7" -> 7
      [] ch = "8" -> 8 [] ch = "9" -> 9

\* the digits of an integer literal: digits, single underscores between them
IsDigitPart(s) ==
    /\ s # <<>>
    /\ \A i \in 1..Len(s) : s[i] \in Digits \cup {"_"}
    /\ s[1] # "_"
    /\ s[Len(s)] # "_"
    /\ \A i \in 1..(Len(s) - 1) : ~(s[i] = "_" /\ s[i + 1] = "_")

RECURSIVE DigitsValue(_, _)
DigitsValue(s, acc) ==
    IF s = <<>> THEN acc
    ELSE IF Head(s) = "_" THEN DigitsValue(Tail(s), acc)
    ELSE DigitsValue(Tail(s), 10 * acc + DigitValue(Head(s)))

\* the text of int(text) without surrounding whitespace and sign
IntBody(text) ==
    LET s == strip(text)
    IN  IF s # <<>> /\ Head(s) \in {"+", "-"} THEN Tail(s) ELSE s

\* int(text) raises ValueError: the text is no optionally signed decimal literal
ValueError(text) == ~IsDigitPart(IntBody(text))

\* int(text), for a text it accepts
int(text) ==
    LET s == strip(text)
    IN  IF s # <<>> /\ Head(s) = "-"
        THEN 0 - DigitsValue(IntBody(text), 0)
        ELSE DigitsValue(IntBody(text), 0)

----------------------------------------------------------------------------
(* The lines of text the users type *)

\* the lines tried at every prompt: quit tokens, the nine moves, numbers out
\* of range, other spellings of a number, text that is no number, answers
RawInputs ==
    { <<"q">>, <<" ", "Q", "U", "I", "T", " ">>, <<"E", "x", "i", "t">>,
      <<"1">>, <<"2">>, <<"3">>, <<"4">>, <<"5">>, <<"6">>, <<"7">>, <<"8">>,
      <<"9">>, <<" ", "5", "\t">>, <<"+", "5">>,
      <<"0">>, <<"1", "0">>, <<"-", "1">>,
      <<>>, <<"x">>, <<"5", ".", "0">>,
      <<"j">>, <<"J", "a">>, <<" ", "y">>, <<"Y", "E", "S">>,
      <<"n">>, <<"N", "e", "j", " ">>, <<"N", "O">> }

----------------------------------------------------------------------------
(* Messages printed to stdout, each a tuple of its parts *)

TurnMsg(p) == <<"Spelare", p, "ar vid drag.">>
WinMsg(p) == <<"Grattis! Spelare", p, "vinner!">>
DrawMsg == <<"Oavgjort!">>
QuitMsg == <<"Avslutar spelet.">>
NotIntMsg == <<"Ogiltigt val. Ange ett nummer mellan 1 och 9.">>
RangeMsg == <<"Numret maste vara mellan 1 och 9.">>
OccupiedMsg == <<"Rutan ar redan upptagen. Valj en annan.">>
AnswerMsg == <<"Svara med 'j' eller 'n'.">>
ThanksMsg == <<"Tack for att du spelade! Hej da!">>
InterruptMsg == <<"Avslutar. Hej da!">>
TracebackMsg == <<"Traceback (most recent call last): EOFError">>

----------------------------------------------------------------------------
(* The board functions *)

winning_triplets ==
    << <<0, 1, 2>>, <<3, 4, 5>>, <<6, 7, 8>>,
       <<0, 3, 6>>, <<1, 4, 7>>, <<2, 5, 8>>,
       <<0, 4, 8>>, <<2, 4, 6>> >>

\* the mutant of is_winning_triplet that forgets the test for " "
is_winning_triplet_any(b, t) ==
    b[t[1]] = b[t[2]] /\ b[t[2]] = b[t[3]]

\* the mutant of is_winning_triplet that compares only the first two cells
is_winning_triplet_two(b, t) ==
    b[t[1]] # " " /\ b[t[1]] = b[t[2]]

\* cells[a] != " " and cells[a] == cells[b] == cells[c]
is_winning_triplet(b, t) ==
    b[t[1]] # " " /\ b[t[1]] = b[t[2]] /\ b[t[2]] = b[t[3]]

RECURSIVE scan_triplets(_, _)
scan_triplets(b, k) ==
    IF k > Len(winning_triplets) THEN None
    ELSE IF is_winning_triplet(b, winning_triplets[k]) THEN b[winning_triplets[k][1]]
    ELSE scan_triplets(b, k + 1)

\* the symbol of the first winning triplet in the order of the list, else None
check_winner(b) == scan_triplets(b, 1)

\* the mutant of is_draw that only looks at the board being full
is_draw_full_only(b) == \A i \in Indices : b[i] # " "

\* all(cell != " " for cell in cells) and check_winner(cells) is None
is_draw(b) == (\A i \in Indices : b[i] # " ") /\ check_winner(b) = None

----------------------------------------------------------------------------
(* get_valid_move: what one pass of its loop does with one line of input *)

\* the mutant of QuitTokens that lacks "exit"
QuitTokensNoExit == { <<"q">>, <<"q", "u", "i", "t">> }

\* the mutant of QuitTokens that lacks "q"
QuitTokensNoQ == { <<"q", "u", "i", "t">>, <<"e", "x", "i", "t">> }

\* {"q", "quit", "exit"}
QuitTokens == { <<"q">>, <<"q", "u", "i", "t">>, <<"e", "x", "i", "t">> }

Exit == [kind |-> "exit", idx |-> None, msg |-> QuitMsg]
Continue(m) == [kind |-> "continue", idx |-> None, msg |-> m]
Return(i) == [kind |-> "return", idx |-> i, msg |-> None]

Choice(n) == [kind |-> "choice", idx |-> n, msg |-> None]

\* the mutant of parse_move that accepts the choice 0
parse_move_from_zero(raw) ==
    LET s == strip(raw)
    IN  IF lower(s) \in QuitTokens THEN Exit
        ELSE IF ValueError(s) THEN Continue(NotIntMsg)
        ELSE IF ~(0 <= int(s) /\ int(s) <= 9) THEN Continue(RangeMsg)
        ELSE Choice(int(s))

\* the part of a pass that does not look at the board: the quit tokens, the
\* conversion to a number, the range
parse_move(raw) ==
    LET s == strip(raw)
    IN  IF lower(s) \in QuitTokens THEN Exit
        ELSE IF ValueError(s) THEN Continue(NotIntMsg)
        ELSE IF ~(1 <= int(s) /\ int(s) <= 9) THEN Continue(RangeMsg)
        ELSE Choice(int(s))

\* parse_move of every line, computed once
ParsedMove == [raw \in RawInputs |-> parse_move(raw)]

\* cells[i] of a Python list of 9 cells: a negative index counts from the end
py_index(b, i) == b[IF i < 0 THEN i + 9 ELSE i]

\* the mutant of get_valid_move that forgets the test for an occupied cell
get_valid_move_any_cell(b, raw) ==
    LET p == ParsedMove[raw]
    IN  IF p.kind # "choice" THEN p
        ELSE Return(p.idx - 1)

\* the mutant of get_valid_move with the test of the cell inverted
get_valid_move_inverted(b, raw) ==
    LET p == ParsedMove[raw]
        idx == p.idx - 1
    IN  IF p.kind # "choice" THEN p
        ELSE IF py_index(b, idx) = " " THEN Continue(OccupiedMsg)
        ELSE Return(idx)

\* the loop of get_valid_move for one line: quit, re-prompt, or the index
get_valid_move(b, raw) ==
    LET p == ParsedMove[raw]
        idx == p.idx - 1
    IN  IF p.kind # "choice" THEN p
        ELSE IF py_index(b, idx) # " " THEN Continue(OccupiedMsg)
        ELSE Return(idx)

----------------------------------------------------------------------------
(* play_game: the steps of its loop *)

\* the mutant of place that builds the board anew on every move
place_on_new_board(b, m, p) == [EmptyBoard EXCEPT ![m] = p]

\* the mutant of place that writes the cell after the chosen one
place_next_cell(b, m, p) == [b EXCEPT ![(m + 1) % 9] = p]

\* the mutant of place that writes the symbol of the player not on turn
place_other_symbol(b, m, p) == [b EXCEPT ![m] = IF p = "X" THEN "O" ELSE "X"]

\* cells[move] = current
place(b, m, p) == [b EXCEPT ![m] = p]

\* the mutant of Other that never passes the turn
OtherSame(p) == p

\* the mutant of Other that always hands the turn to O
OtherAlwaysO(p) == "O"

\* "O" if current == "X" else "X"
Other(p) == IF p = "X" THEN "O" ELSE "X"

\* the mutant of outcome that tests for a full board first
outcome_full_first(b) ==
    IF \A i \in Indices : b[i] # " " THEN "Draw"
    ELSE IF check_winner(b) # None THEN "Won"
    ELSE "Next"

\* the mutant of outcome without the test for a winner
outcome_no_win_check(b) ==
    IF \A i \in Indices : b[i] # " " THEN "Draw" ELSE "Next"

\* what play_game decides after a move: winner first, then draw, else go on
outcome(b) ==
    IF check_winner(b) # None THEN "Won"
    ELSE IF is_draw(b) THEN "Draw"
    ELSE "Next"

\* the mutant of NewGameBoard that keeps the board of the game before
NewGameBoardKept == cells

\* the board play_game starts with
NewGameBoard == EmptyBoard

\* play_game is entered: its locals are fresh, the first prompt is shown
StartGame ==
    /\ cells' = NewGameBoard
    /\ current' = "X"
    /\ last_move' = Nothing
    /\ move' = Nothing
    /\ winner' = Unbound
    /\ draw' = Nothing
    /\ out' = TurnMsg("X")
    /\ pc' = "move_prompt"
    /\ prev_pc' = pc
    /\ UNCHANGED exit_code

\* get_valid_move met a quit token: sys.exit(0)
MoveQuit(r) ==
    /\ r.kind = "exit"
    /\ out' = r.msg
    /\ pc' = "exited"
    /\ exit_code' = Some(0)
    /\ prev_pc' = pc
    /\ UNCHANGED <<cells, current, last_move, move, winner, draw>>

\* get_valid_move turned the line down: a message, and the prompt again
MoveRejected(r) ==
    /\ r.kind = "continue"
    /\ out' = r.msg
    /\ prev_pc' = pc
    /\ UNCHANGED <<cells, current, last_move, move, winner, draw, pc, exit_code>>

\* get_valid_move returned an index: the move is applied and the game decided
MoveApplied(r) ==
    /\ r.kind = "return"
    /\ \E b \in {place(cells, r.idx, current)} :
       \E w \in {check_winner(b)} :
       \E o \in {outcome(b)} :
           /\ move' = Some(r.idx)
           /\ cells' = b
           /\ last_move' = Some(r.idx)
           /\ winner' = w
           /\ draw' = IF o = "Won" THEN draw ELSE Some(is_draw(b))
           /\ current' = IF o = "Next" THEN Other(current) ELSE current
           /\ out' = CASE o = "Won" -> WinMsg(w)
                       [] o = "Draw" -> DrawMsg
                       [] OTHER -> TurnMsg(Other(current))
           /\ pc' = IF o = "Next" THEN "move_prompt" ELSE "play_again"
    /\ prev_pc' = pc
    /\ UNCHANGED exit_code

\* one line read at the move prompt of play_game
MovePrompt(raw) ==
    /\ pc = "move_prompt"
    /\ LET r == get_valid_move(cells, raw)
       IN  MoveQuit(r) \/ MoveRejected(r) \/ MoveApplied(r)

----------------------------------------------------------------------------
(* ask_play_again and main *)

YesTokens == { <<"j">>, <<"j", "a">>, <<"y">>, <<"y", "e", "s">> }
NoTokens == { <<"n">>, <<"n", "e", "j">>, <<"n", "o">> }

\* the mutant of ask_play_again that forgets .lower()
ask_play_again_no_lower(raw) ==
    LET answer == strip(raw)
    IN  IF answer \in YesTokens THEN "True"
        ELSE IF answer \in NoTokens THEN "False"
        ELSE "continue"

\* one pass of the loop of ask_play_again: TRUE, FALSE, or the prompt again
ask_play_again(raw) ==
    LET answer == lower(strip(raw))
    IN  IF answer \in YesTokens THEN "True"
        ELSE IF answer \in NoTokens THEN "False"
        ELSE "continue"

\* ask_play_again of every line, computed once
Answer == [raw \in RawInputs |-> ask_play_again(raw)]

\* an affirmative answer: main calls play_game again
AgainYes(a) ==
    /\ a = "True"
    /\ StartGame

\* a negative answer: main says goodbye and returns
AgainNo(a) ==
    /\ a = "False"
    /\ out' = ThanksMsg
    /\ pc' = "exited"
    /\ exit_code' = Some(0)
    /\ prev_pc' = pc
    /\ UNCHANGED <<cells, current, last_move, move, winner, draw>>

\* any other answer: a hint, and the prompt again
AgainOther(a) ==
    /\ a = "continue"
    /\ out' = AnswerMsg
    /\ prev_pc' = pc
    /\ UNCHANGED <<cells, current, last_move, move, winner, draw, pc, exit_code>>

\* one line read at the play-again prompt of main
AgainPrompt(raw) ==
    /\ pc = "play_again"
    /\ LET a == Answer[raw]
       IN  AgainYes(a) \/ AgainNo(a) \/ AgainOther(a)

\* the mutant of Interrupt without the try around main(): the exception ends
\* the process with a traceback
InterruptUncaught ==
    /\ pc \in {"move_prompt", "play_again"}
    /\ out' = <<"Traceback (most recent call last): KeyboardInterrupt">>
    /\ pc' = "exited"
    /\ exit_code' = Some(1)
    /\ prev_pc' = pc
    /\ UNCHANGED <<cells, current, last_move, move, winner, draw>>

\* KeyboardInterrupt while the program waits for input: caught around main()
Interrupt ==
    /\ pc \in {"move_prompt", "play_again"}
    /\ out' = InterruptMsg
    /\ pc' = "exited"
    /\ exit_code' = Some(0)
    /\ prev_pc' = pc
    /\ UNCHANGED <<cells, current, last_move, move, winner, draw>>

\* stdin ends while the program waits for input: input() raises EOFError,
\* which nothing catches
EndOfInput ==
    /\ pc \in {"move_prompt", "play_again"}
    /\ out' = TracebackMsg
    /\ pc' = "exited"
    /\ exit_code' = Some(1)
    /\ prev_pc' = pc
    /\ UNCHANGED <<cells, current, last_move, move, winner, draw>>

----------------------------------------------------------------------------
(* The program *)

\* main has printed the welcome and called play_game for the first time
Init ==
    /\ cells = EmptyBoard
    /\ current = "X"
    /\ last_move = Nothing
    /\ move = Nothing
    /\ winner = Unbound
    /\ draw = Nothing
    /\ out = TurnMsg("X")
    /\ pc = "move_prompt"
    /\ exit_code = Nothing
    /\ prev_pc = None

Next ==
    \/ \E raw \in RawInputs : MovePrompt(raw)
    \/ \E raw \in RawInputs : AgainPrompt(raw)
    \/ Interrupt
    \/ EndOfInput

Spec == Init /\ [][Next]_vars

\* the players type the number of a free cell: get_valid_move returns and
\* play_game applies the move
ValidMove ==
    \E raw \in RawInputs :
        pc = "move_prompt" /\ MoveApplied(get_valid_move(cells, raw))

\* the program with players who, asked for a move again and again, do give
\* a valid one
SpecLive == Spec /\ WF_vars(ValidMove)

----------------------------------------------------------------------------
(* The functions on their own: check_winner, is_draw and get_valid_move are  *)
(* called on a board that may be any of the 3^9 assignments of the cells.    *)

InitFn ==
    /\ cells \in Boards
    /\ current = "X"
    /\ last_move = Nothing
    /\ move = Nothing
    /\ winner = Unbound
    /\ draw = Nothing
    /\ out = <<>>
    /\ pc = "call"
    /\ exit_code = Nothing
    /\ prev_pc = None

\* winner = check_winner(cells)
CallCheckWinner ==
    /\ pc = "call"
    /\ winner' = check_winner(cells)
    /\ pc' = "returned"
    /\ prev_pc' = pc
    /\ UNCHANGED <<cells, current, last_move, move, draw, out, exit_code>>

\* is_draw(cells)
CallIsDraw ==
    /\ pc = "call"
    /\ draw' = Some(is_draw(cells))
    /\ pc' = "returned"
    /\ prev_pc' = pc
    /\ UNCHANGED <<cells, current, last_move, move, winner, out, exit_code>>

\* get_valid_move(cells, current) is entered and waits for a line
CallGetValidMove ==
    /\ pc = "call"
    /\ pc' = "move_prompt"
    /\ prev_pc' = pc
    /\ UNCHANGED <<cells, current, last_move, move, winner, draw, out, exit_code>>

\* get_valid_move returns the index of the line it resolved
MoveReturned(r) ==
    /\ r.kind = "return"
    /\ move' = Some(r.idx)
    /\ pc' = "returned"
    /\ prev_pc' = pc
    /\ UNCHANGED <<cells, current, last_move, winner, draw, out, exit_code>>

\* one line read by get_valid_move
MoveLine(raw) ==
    /\ pc = "move_prompt"
    /\ LET r == get_valid_move(cells, raw)
       IN  MoveQuit(r) \/ MoveRejected(r) \/ MoveReturned(r)

NextFn ==
    \/ CallCheckWinner
    \/ CallIsDraw
    \/ CallGetValidMove
    \/ \E raw \in RawInputs : MoveLine(raw)

SpecFn == InitFn /\ [][NextFn]_vars

----------------------------------------------------------------------------
(* What the claims speak of, in their own words *)

\* the eight triplets, as the claims list them
ClaimTriplets ==
    { <<0, 1, 2>>, <<3, 4, 5>>, <<6, 7, 8>>, <<0, 3, 6>>, <<1, 4, 7>>,
      <<2, 5, 8>>, <<0, 4, 8>>, <<2, 4, 6>> }

\* symbol p holds all three cells of some triplet of board b
HasTriplet(b, p) ==
    \E t \in ClaimTriplets : b[t[1]] = p /\ b[t[2]] = p /\ b[t[3]] = p

\* some triplet of board b is held by one player
Won(b) == HasTriplet(b, "X") \/ HasTriplet(b, "O")

\* no cell of board b is Empty
Full(b) == \A i \in Indices : b[i] # " "

\* the number of occupied cells of board b
Occupied(b) == Cardinality({i \in Indices : b[i] # " "})

----------------------------------------------------------------------------
(* C1 - C3: the functions, on every board *)

\* C1: on every board, check_winner returns a symbol iff some one of the eight
\* triplets is held entirely by X or entirely by O, and None otherwise; the
\* symbol it returns holds a complete triplet.
C1_CheckWinner ==
    winner # Unbound =>
        /\ winner \in {"X", "O", None}
        /\ (winner # None) <=> Won(cells)
        /\ winner # None => HasTriplet(cells, winner)

\* check_winner was called on a board where both symbols hold a triplet, which
\* no game reaches, and reported one of them
C1_Witness ==
    /\ pc = "returned"
    /\ winner = "O"
    /\ HasTriplet(cells, "X")
    /\ HasTriplet(cells, "O")

\* C2: on every board, is_draw is true iff no cell is Empty and check_winner
\* returns None; so no board has a winner and is a draw at once.
C2_IsDraw ==
    draw # Nothing =>
        /\ draw[1] <=> (Full(cells) /\ check_winner(cells) = None)
        /\ ~(draw[1] /\ Won(cells))

\* is_draw was called on a full board with a winner and returned False
C2_Witness ==
    /\ pc = "returned"
    /\ draw = Some(FALSE)
    /\ Full(cells)
    /\ Won(cells)

\* C3: whatever the board and the lines typed, an index get_valid_move
\* returns is in 0..8 and its cell is Empty on the board it was given.
C3_ValidMove ==
    move # Nothing =>
        /\ move[1] \in 0..8
        /\ cells[move[1]] = " "

\* get_valid_move returned an index after it had turned down an occupied cell
C3_Witness ==
    /\ pc = "returned"
    /\ move # Nothing
    /\ out = OccupiedMsg
    /\ Occupied(cells) = 8

----------------------------------------------------------------------------
(* C4 - C10: the game *)

\* the number a line stands for, for the lines int() accepts
LineNumber ==
    [raw \in RawInputs |->
        IF ValueError(strip(raw)) THEN Nothing ELSE Some(int(strip(raw)))]

\* the line, trimmed and lower-cased
Normalised == [raw \in RawInputs |-> lower(strip(raw))]

\* the line is a quit token
IsQuitLine(raw) ==
    Normalised[raw] \in { <<"q">>, <<"q", "u", "i", "t">>, <<"e", "x", "i", "t">> }

\* the line is a number of 1..9
IsCellNumber(raw) ==
    LineNumber[raw] # Nothing /\ LineNumber[raw][1] \in 1..9

\* the line names a cell that is occupied
SelectsOccupied(raw) ==
    IsCellNumber(raw) /\ cells[LineNumber[raw][1] - 1] # " "

\* the line is no quit token and no number of an Empty cell
InvalidLine(raw) ==
    ~IsQuitLine(raw) /\ (~IsCellNumber(raw) \/ SelectsOccupied(raw))

\* a step that begins a new game
NewGameStep == pc = "play_again" /\ pc' = "move_prompt"

\* a step of play_game that applies a move
MoveStep == pc = "move_prompt" /\ cells' # cells

\* a line that selects an occupied cell is turned down with no cell written
C4_Rejected ==
    pc = "move_prompt" =>
        \A raw \in RawInputs :
            SelectsOccupied(raw) =>
                /\ ENABLED MovePrompt(raw)
                /\ ~ENABLED (MovePrompt(raw) /\ cells' # cells)

\* C4: during one game a cell that holds X or O keeps it, and a line that
\* selects an occupied cell is rejected before any cell is written.
C4_NoOverwrite ==
    /\ []C4_Rejected
    /\ [][~NewGameStep =>
            \A i \in Indices : cells[i] # " " => cells'[i] = cells[i]]_vars

\* an occupied cell was selected, and turned down, late in a game
C4_Witness ==
    /\ pc = "move_prompt"
    /\ out = OccupiedMsg
    /\ Occupied(cells) = 8

\* C5: the first applied move of a game is by X, and every later applied move
\* is by the player who did not make the move before it.
C5_Alternation ==
    [][MoveStep =>
        \A i \in Indices :
            cells'[i] # cells[i] =>
                cells'[i] = IF last_move = Nothing THEN "X"
                            ELSE IF cells[last_move[1]] = "X" THEN "O"
                            ELSE "X"]_vars

\* four moves were applied and the fifth line was invalid
C5_Witness ==
    /\ pc = "move_prompt"
    /\ Occupied(cells) = 4
    /\ out = RangeMsg

\* C6: an invalid line at the move prompt (no integer, not in 1..9, or an
\* occupied cell) leaves the board, the current player and the last move as
\* they are, and the same player is prompted again.
C6_InvalidInput ==
    pc = "move_prompt" =>
        \A raw \in RawInputs :
            InvalidLine(raw) =>
                /\ ENABLED MovePrompt(raw)
                /\ ~ENABLED (/\ MovePrompt(raw)
                             /\ ~(/\ cells' = cells
                                  /\ current' = current
                                  /\ last_move' = last_move
                                  /\ pc' = "move_prompt"))

\* O was prompted again after a line that is no number
C6_Witness ==
    /\ pc = "move_prompt"
    /\ current = "O"
    /\ out = NotIntMsg

\* C7: a quit token at the move prompt ends the program at once with exit code
\* 0 and the farewell: the board is left as it is, no win or draw is declared,
\* and nothing follows the end of the program.
C7_Quit ==
    /\ pc = "move_prompt" =>
        \A raw \in RawInputs :
            IsQuitLine(raw) =>
                /\ ENABLED MovePrompt(raw)
                /\ ~ENABLED (/\ MovePrompt(raw)
                             /\ ~(/\ pc' = "exited"
                                  /\ exit_code' = Some(0)
                                  /\ out' = QuitMsg
                                  /\ cells' = cells
                                  /\ last_move' = last_move))
    /\ pc = "exited" => ~ENABLED Next

\* the program ended on a quit token in the middle of a game
C7_Witness ==
    /\ pc = "exited"
    /\ out = QuitMsg
    /\ Occupied(cells) = 3

\* C8, as claimed: the line "q" ends the program at the move prompt and at the
\* play-again prompt alike.
C8_QuitAtAnyPrompt ==
    pc \in {"move_prompt", "play_again"} =>
        /\ ENABLED (MovePrompt(<<"q">>) \/ AgainPrompt(<<"q">>))
        /\ ~ENABLED (/\ MovePrompt(<<"q">>) \/ AgainPrompt(<<"q">>)
                     /\ pc' # "exited")

\* C8, as amended: the line "q" ends the program at once at the move prompt,
\* whatever the state of the game; at the play-again prompt it ends nothing
\* and starts nothing: a hint is printed and the same prompt comes again.
C8_QuitAtMovePrompt ==
    /\ pc = "move_prompt" =>
        /\ ENABLED MovePrompt(<<"q">>)
        /\ ~ENABLED (/\ MovePrompt(<<"q">>)
                     /\ ~(pc' = "exited" /\ exit_code' = Some(0) /\ cells' = cells))
    /\ pc = "play_again" =>
        /\ ENABLED AgainPrompt(<<"q">>)
        /\ ~ENABLED (/\ AgainPrompt(<<"q">>)
                     /\ ~(/\ pc' = "play_again"
                          /\ out' = AnswerMsg
                          /\ exit_code' = Nothing
                          /\ cells' = cells))

\* after a game O won, an answer was met with the hint and the prompt again
C8_Witness ==
    /\ pc = "play_again"
    /\ out = AnswerMsg
    /\ winner = "O"

\* C9: after each applied move a winner ends the game as Won for that symbol,
\* else a full board ends it as Draw, else the turn passes; a game ends only
\* on such a move, and no move is applied to a board that is won or full.
C9_Decision ==
    [][pc = "move_prompt" =>
        /\ ~Won(cells) /\ ~Full(cells)
        /\ MoveStep =>
            /\ Won(cells') =>
                 /\ pc' = "play_again"
                 /\ \E p \in Players : HasTriplet(cells', p) /\ out' = WinMsg(p)
            /\ (~Won(cells') /\ Full(cells')) =>
                 pc' = "play_again" /\ out' = DrawMsg
            /\ (~Won(cells') /\ ~Full(cells')) =>
                 pc' = "move_prompt" /\ current' # current
        /\ pc' = "play_again" =>
            MoveStep /\ (Won(cells') \/ Full(cells'))]_vars

\* the ninth move completed a triplet and the game was declared won
C9_Witness ==
    /\ pc = "play_again"
    /\ Full(cells)
    /\ out = WinMsg("X")

\* C10: the first game, and every game begun by an affirmative answer, starts
\* with nine Empty cells, X to move and no last move.
C10_FreshGame ==
    /\ (\A i \in Indices : cells[i] = " ") /\ current = "X" /\ last_move = Nothing
    /\ [][NewGameStep =>
            /\ \A i \in Indices : cells'[i] = " "
            /\ current' = "X"
            /\ last_move' = Nothing]_vars

\* a second game has begun and waits for its first move
C10_Witness ==
    /\ prev_pc = "play_again"
    /\ pc = "move_prompt"
    /\ last_move = Nothing
    /\ cells = EmptyBoard

----------------------------------------------------------------------------
(* C11 - C13: the play-again prompt and the end of the process *)

\* the line is an affirmative answer
IsYesLine(raw) ==
    Normalised[raw] \in { <<"j">>, <<"j", "a">>, <<"y">>, <<"y", "e", "s">> }

\* the line is a negative answer
IsNoLine(raw) ==
    Normalised[raw] \in { <<"n">>, <<"n", "e", "j">>, <<"n", "o">> }

\* C11: the play-again prompt is shown only on a board that is won or full; an
\* affirmative answer starts a new game, a negative one prints the farewell
\* and ends the process with exit code 0, and any other line starts no game
\* and ends nothing: the same prompt comes again.
C11_PlayAgain ==
    pc = "play_again" =>
        /\ Won(cells) \/ Full(cells)
        /\ \A raw \in RawInputs :
            /\ ENABLED AgainPrompt(raw)
            /\ IsYesLine(raw) =>
                ~ENABLED (/\ AgainPrompt(raw)
                          /\ ~(/\ pc' = "move_prompt"
                               /\ exit_code' = Nothing
                               /\ \A i \in Indices : cells'[i] = " "))
            /\ IsNoLine(raw) =>
                ~ENABLED (/\ AgainPrompt(raw)
                          /\ ~(/\ pc' = "exited"
                               /\ exit_code' = Some(0)
                               /\ out' = ThanksMsg
                               /\ cells' = cells))
            /\ (~IsYesLine(raw) /\ ~IsNoLine(raw)) =>
                ~ENABLED (/\ AgainPrompt(raw)
                          /\ ~(/\ pc' = "play_again"
                               /\ exit_code' = Nothing
                               /\ cells' = cells))

\* after a drawn game the players declined another one
C11_Witness ==
    /\ pc = "exited"
    /\ out = ThanksMsg
    /\ draw = Some(TRUE)

\* C12: an interrupt at a move prompt or at the play-again prompt ends the
\* program with the farewell and exit code 0; no cell is written by it and
\* nothing follows it.
C12_Interrupt ==
    /\ pc \in {"move_prompt", "play_again"} =>
        /\ ENABLED Interrupt
        /\ ~ENABLED (/\ Interrupt
                     /\ ~(/\ pc' = "exited"
                          /\ exit_code' = Some(0)
                          /\ out' = InterruptMsg
                          /\ cells' = cells
                          /\ last_move' = last_move))
    /\ (pc = "exited" /\ out = InterruptMsg) =>
        exit_code = Some(0) /\ ~ENABLED Next

\* the program was interrupted at the play-again prompt
C12_Witness ==
    /\ pc = "exited"
    /\ out = InterruptMsg
    /\ prev_pc = "play_again"

\* C13, as claimed: the process ends only on a quit token, a negative answer
\* or an interrupt, always with exit code 0, and every line typed at a prompt
\* that is none of these is followed by a prompt.
C13_EndsGracefully ==
    /\ pc = "exited" =>
        /\ exit_code = Some(0)
        /\ out \in {QuitMsg, ThanksMsg, InterruptMsg}
    /\ pc = "move_prompt" =>
        \A raw \in RawInputs :
            ~IsQuitLine(raw) =>
                ~ENABLED (MovePrompt(raw) /\ pc' = "exited")
    /\ pc = "play_again" =>
        \A raw \in RawInputs :
            ~IsNoLine(raw) =>
                ~ENABLED (AgainPrompt(raw) /\ pc' = "exited")

----------------------------------------------------------------------------
(* C14 - C19: the boards of a game *)

\* triplet t of board b is held by one player
Held(b, t) == b[t[1]] # " " /\ b[t[1]] = b[t[2]] /\ b[t[2]] = b[t[3]]

\* the number of cells of board b that hold symbol p
Count(b, p) == Cardinality({i \in Indices : b[i] = p})

\* C14: on every board a game reaches, X and O do not both hold a triplet;
\* so every held triplet carries the symbol check_winner returns, and the
\* order in which the eight triplets are scanned does not matter.
C14_OneWinner ==
    /\ ~(HasTriplet(cells, "X") /\ HasTriplet(cells, "O"))
    /\ \A t \in ClaimTriplets :
        Held(cells, t) => check_winner(cells) = cells[t[1]]

\* the last move completed two triplets at once
C14_Witness ==
    /\ pc = "play_again"
    /\ \E t1, t2 \in ClaimTriplets :
        t1 # t2 /\ Held(cells, t1) /\ Held(cells, t2)

\* C15: within a game the board changes only in the step of play_game that
\* applies the move get_valid_move returned: exactly the cell of that index
\* goes from Empty to the symbol of the player on turn and the other eight
\* cells stay; a line that is turned down, or a quit, writes no cell.
C15_Frame ==
    [][ ~NewGameStep =>
          /\ cells' # cells =>
              /\ pc = "move_prompt"
              /\ move' # Nothing
              /\ last_move' = move'
              /\ cells[move'[1]] = " "
              /\ cells'[move'[1]] = current
              /\ \A j \in Indices \ {move'[1]} : cells'[j] = cells[j]
          /\ out' \in {NotIntMsg, RangeMsg, OccupiedMsg, QuitMsg, AnswerMsg,
                       ThanksMsg, InterruptMsg, TracebackMsg} =>
              cells' = cells ]_vars

\* five moves were applied and the game goes on
C15_Witness ==
    /\ pc = "move_prompt"
    /\ Occupied(cells) = 5
    /\ last_move # Nothing
    /\ out = TurnMsg("O")

\* C18: when a win is announced the winner is the player who made the move
\* just before, and check_winner never reports the symbol of the other one.
C18_WinnerIsMover ==
    /\ last_move # Nothing =>
        check_winner(cells) \in {None, cells[last_move[1]]}
    /\ \A p \in Players :
        out = WinMsg(p) =>
            /\ pc = "play_again"
            /\ winner = p
            /\ current = p
            /\ cells[last_move[1]] = p

\* O won with its fourth move
C18_Witness ==
    /\ out = WinMsg("O")
    /\ Occupied(cells) = 8

\* C19: the number of X minus the number of O is 0 or 1 in every state of a
\* game; at a move prompt it is 0 exactly when X is on turn and 1 exactly
\* when O is.
C19_Counts ==
    LET d == Count(cells, "X") - Count(cells, "O")
    IN  /\ d \in {0, 1}
        /\ pc = "move_prompt" =>
            /\ (d = 0) <=> (current = "X")
            /\ (d = 1) <=> (current = "O")

\* O is asked for its fourth move
C19_Witness ==
    /\ pc = "move_prompt"
    /\ current = "O"
    /\ Count(cells, "X") = 4
    /\ Count(cells, "O") = 3

----------------------------------------------------------------------------
(* C17: the number of a free cell, on every board *)

\* the line that consists of the digit of n
DigitLine(n) ==
    << <<"1">>, <<"2">>, <<"3">>, <<"4">>, <<"5">>, <<"6">>, <<"7">>, <<"8">>, <<"9">> >>[n]

\* C17: on every board and for every n of 1..9, the line n at the prompt of
\* get_valid_move returns index n-1 when that cell is Empty; once the move is
\* placed there, or if the cell is occupied already, the same line is turned
\* down as occupied and the prompt stays.
C17_Resolve ==
    pc = "move_prompt" =>
        \A n \in 1..9 :
            LET raw == DigitLine(n)
            IN  /\ ENABLED MoveLine(raw)
                /\ cells[n - 1] = " " =>
                    /\ ~ENABLED (/\ MoveLine(raw)
                                 /\ ~(/\ pc' = "returned"
                                      /\ move' = Some(n - 1)
                                      /\ cells' = cells))
                    /\ \A p \in Players :
                        get_valid_move(place(cells, n - 1, p), raw)
                            = Continue(OccupiedMsg)
                /\ cells[n - 1] # " " =>
                    ~ENABLED (/\ MoveLine(raw)
                              /\ ~(/\ pc' = "move_prompt"
                                   /\ move' = Nothing
                                   /\ out' = OccupiedMsg
                                   /\ cells' = cells))

\* "5" on the empty board was resolved to index 4
C17_Witness ==
    /\ pc = "returned"
    /\ move = Some(4)
    /\ cells = EmptyBoard

----------------------------------------------------------------------------
(* C20: the length of a game *)

\* C20: a game is over (won or drawn) only after five to nine applied moves, a
\* draw only after the ninth, which X made; and with players who do give a
\* valid move, every game that is not cut short by the end of the process
\* comes to its end.
C20_GameEnds ==
    /\ [](pc = "play_again" =>
            /\ Occupied(cells) \in 5..9
            /\ Won(cells) \/ draw = Some(TRUE)
            /\ draw = Some(TRUE) =>
                /\ Occupied(cells) = 9
                /\ cells[last_move[1]] = "X"
                /\ current = "X")
    /\ (pc = "move_prompt") ~> (pc \in {"play_again", "exited"})

\* a game was drawn
C20_Witness ==
    /\ pc = "play_again"
    /\ draw = Some(TRUE)
    /\ out = DrawMsg
    /\ Occupied(cells) = 9

====
